---- MODULE Spec2Model ----
(***************************************************************************)
(* Three components of the repository, each with its own specification:    *)
(*                                                                         *)
(*  - KeepAliveManager of src/src/lib/keepalive-manager.ts (Spec, LiveSpec, *)
(*    PunctualSpec, RestartSpec).  Time is Date.now() in milliseconds,      *)
(*    observed at the instants the clock advances to.  A timer carries its  *)
(*    due time and fires no earlier than that; the event loop runs every    *)
(*    timer that is due before the clock advances again, and an interval is *)
(*    due again one period after it ran.  Every asynchronous callback is a  *)
(*    task whose pc is the await it is suspended at; the answer of each     *)
(*    Supabase call is an input chosen by the environment when the call     *)
(*    returns.                                                              *)
(*  - the GET and PATCH handlers of                                         *)
(*    src/app/api/admin/watch-ads-earnings/route.ts (PatchSpec, GetSpec).   *)
(*  - the function soft_delete_collection of src/unnamed/part_001           *)
(*    (SqlSpec).                                                            *)
(***************************************************************************)
EXTENDS Integers, Sequences, FiniteSets

VARIABLES
    now,                    \* Date.now()
    visibilityState,        \* document.visibilityState
    isActive,               \* KeepAliveManager.isActive
    authRefreshInterval,    \* handle of the auth-refresh interval, Null if none
    connectionPingInterval, \* handle of the connection-ping interval, Null if none
    lastActivity,           \* KeepAliveManager.lastActivity
    timers,                 \* the pending timers this module registered
    nextHandle,             \* the handle the next setInterval/setTimeout returns
    activityListeners,      \* number of installed sets of updateActivity listeners
    closures,               \* one {lastHiddenTime, lastVisibleTime} per setupVisibilityRefresh()
    tasks,                  \* the asynchronous callbacks in flight, oldest first
    envEvents,              \* how many environment events have happened
    step,                   \* what the last step did: operation, collaborator calls,
                            \* dispatched events, and the callback it ran (if any)
    video_watches,          \* the video_watches table: watch id -> row
    patch,                  \* the PATCH request being handled: position and locals
    listing,                \* the last answer of the GET handler
    unified_collections,    \* ids of the rows of public.unified_collections
    collections,            \* ids of the rows of public.collections
    deleted_transactions,   \* original_collection_id of each row of deleted_transactions
    softDelete              \* the soft_delete_collection call being executed

(* The variables of the keepalive manager (browser), of the watch-ads-earnings *)
(* route (server) and of the soft_delete_collection function (database).       *)
managerVars == <<now, visibilityState, isActive, authRefreshInterval,
                 connectionPingInterval, lastActivity, timers, nextHandle,
                 activityListeners, closures, tasks, envEvents, step>>
apiVars == <<video_watches, patch, listing>>
sqlVars == <<unified_collections, collections, deleted_transactions, softDelete>>
serverVars == <<apiVars, sqlVars>>

vars == <<managerVars, apiVars, sqlVars>>

----------------------------------------------------------------------------
(* Bounds of the model *)

MaxEvents == 3
MaxInFlight == 2
MaxMinutes == 11

(* Program constants *)

AuthRefreshPeriod == 4 * 60 * 1000
PingPeriod == 15000
PingTimeout == 5000
IdleCheckPeriod == 5 * 60 * 1000
IdleLimit == 10 * 60 * 1000
HiddenLimit == 1000
VisibleLimit == 60000
AutoStartDelay == 2000

(* The environment: the page loads at PageLoadTime; between two steps the     *)
(* clock advances by one of Deltas.  The environment (callers of start() and   *)
(* stop(), the user, the clock) acts at most MaxEvents times.                  *)

PageLoadTime == 2 * 60 * 60 * 1000
Deltas == {PingTimeout, IdleLimit + 60 * 1000}
Null == 0

----------------------------------------------------------------------------
(* Helpers *)

RemoveAt(s, i) == SubSeq(s, 1, i - 1) \o SubSeq(s, i + 1, Len(s))

Count(s, x) == Cardinality({i \in 1..Len(s) : s[i] = x})

(* A callback: the await it is suspended at (pc), the collaborator calls it    *)
(* has made, what getSession, refreshSession and the probe answered, its       *)
(* locals expiresAt and timeUntilExpiry, the due time of its 5 s fallback,     *)
(* and whether an exception left it uncaught.                                  *)
NoTask == [kind |-> "none", pc |-> "none", calls |-> << >>, sess |-> "none",
           expiresAt |-> 0, timeUntilExpiry |-> 0, refresh |-> "none",
           probe |-> "none", deadline |-> 0, threw |-> FALSE]

NewTask(k, p) == [NoTask EXCEPT !.kind = k, !.pc = p]

Quiet(op) == [op |-> op, calls |-> << >>, events |-> << >>, task |-> NoTask]

(* clearInterval(h) *)
ClearInterval(T, h) == {t \in T : t.id # h}

----------------------------------------------------------------------------
(* The server's components at rest: no request is being handled and no table  *)
(* has a row.                                                                  *)

(* A PATCH request: the await it is suspended at (pc), the id and status it    *)
(* was sent, the row the existence check returned (a set: empty when none),    *)
(* how many times it called award_video_watch_credits, what the RPC and the    *)
(* update answered, the status code it answered with (0: not yet), and the     *)
(* table as it was when the request arrived.                                   *)
NoPatch == [pc |-> "idle", id |-> "", status |-> "missing", existingWatch |-> {},
            awardCalls |-> 0, award |-> "none", update |-> "none", response |-> 0,
            before |-> << >>]

NoListing == [status |-> 0, statusFilter |-> "none", earnings |-> {}, count |-> 0]

(* A soft_delete_collection call: its position, its arguments (the role is     *)
(* that of p_deleted_by in public.users), the tables as they were when the     *)
(* block was entered, and the value of 'success' it returned.                  *)
NoSoftDelete == [pc |-> "idle", p_collection_id |-> "", v_user_role |-> "NULL",
                 saved |-> << >>, success |-> "none"]

ApiAtRest == video_watches = << >> /\ patch = NoPatch /\ listing = NoListing

SqlAtRest ==
    /\ unified_collections = {} /\ collections = {}
    /\ deleted_transactions = << >> /\ softDelete = NoSoftDelete

----------------------------------------------------------------------------
(* Construction and module load: lines 13-16 and 267-276 *)

Init ==
    /\ ApiAtRest /\ SqlAtRest
    /\ now = PageLoadTime
    /\ visibilityState \in {"visible", "hidden"}
    /\ isActive = FALSE
    /\ authRefreshInterval = Null
    /\ connectionPingInterval = Null
    /\ lastActivity = PageLoadTime
    /\ timers = {[id |-> 1, kind |-> "autostart", due |-> PageLoadTime + AutoStartDelay]}
    /\ nextHandle = 2
    /\ activityListeners = 0
    /\ closures = << >>
    /\ tasks = << >>
    /\ envEvents = 0
    /\ step = Quiet("load")

(* One more environment event *)
Event == envEvents < MaxEvents /\ envEvents' = envEvents + 1

(* Something the event loop has to run at this instant: a due timer, or the   *)
(* expired 5 s fallback of a probe still racing.                               *)
Runnable ==
    \/ \E t \in timers : t.due <= now
    \/ \E i \in 1..Len(tasks) : tasks[i].pc = "race" /\ tasks[i].deadline <= now

(* The instants at which the 5 s fallback of a probe still racing fires *)
Fallbacks == {tasks[i].deadline : i \in {j \in 1..Len(tasks) : tasks[j].pc = "race"}}

(* The instant the clock is observed next when it advances by d: the fallback *)
(* of line 148 fires when its 5000 ms have elapsed, so the clock does not      *)
(* pass that instant unobserved.                                               *)
NextInstant(d) ==
    IF \E f \in Fallbacks : f < now + d
    THEN CHOOSE f \in Fallbacks : \A g \in Fallbacks : f <= g
    ELSE now + d

(* The clock *)
Advance ==
    /\ Event
    /\ ~Runnable
    /\ \E d \in Deltas : now' = NextInstant(d)
    /\ step' = Quiet("Advance")
    /\ UNCHANGED <<visibilityState, isActive, authRefreshInterval, connectionPingInterval,
                   lastActivity, timers, nextHandle, activityListeners, closures, tasks>>
    /\ UNCHANGED serverVars

(* start() when already running: the early return of line 22.  The module's   *)
(* own setTimeout, once run, is no longer pending.                             *)
StartNoop(op) ==
    /\ step' = Quiet(op)
    /\ timers' = {t \in timers : t.kind # "autostart" \/ op # "AutoStart"}
    /\ UNCHANGED <<isActive, authRefreshInterval, connectionPingInterval, lastActivity,
                   nextHandle, activityListeners, closures>>
    /\ UNCHANGED serverVars

(* Lines 23-38, with setupActivityTracking (60-69), the setInterval of         *)
(* startAuthRefresh (78, 120) and of startConnectionPing (130, 172), and       *)
(* setupVisibilityRefresh (180-181, 183, 227, 249).                            *)
StartEffective(op) ==
    /\ isActive' = TRUE
    /\ lastActivity' = now
    /\ activityListeners' = activityListeners + 1
    /\ authRefreshInterval' = nextHandle
    /\ connectionPingInterval' = nextHandle + 1
    /\ timers' = {t \in timers : t.kind # "autostart" \/ op # "AutoStart"} \cup
           {[id |-> nextHandle, kind |-> "auth", due |-> now + AuthRefreshPeriod],
            [id |-> nextHandle + 1, kind |-> "ping", due |-> now + PingPeriod],
            [id |-> nextHandle + 2, kind |-> "idle", due |-> now + IdleCheckPeriod]}
    /\ nextHandle' = nextHandle + 3
    /\ closures' = Append(closures, [lastHiddenTime |-> 0, lastVisibleTime |-> now])
    /\ step' = [Quiet(op) EXCEPT !.calls = <<"setInterval", "setInterval", "setInterval">>]
    /\ UNCHANGED serverVars

StartAlways(op) == StartEffective(op)

(* start(), lines 21-39 *)
StartBody(op) == IF isActive THEN StartNoop(op) ELSE StartEffective(op)

Start ==
    /\ Event
    /\ StartBody("start")
    /\ UNCHANGED <<now, visibilityState, tasks>>

AutoStartSkipped ==
    /\ \E t \in timers : t.kind = "autostart" /\ t.due <= now
    /\ timers' = {t \in timers : t.kind # "autostart"}
    /\ step' = Quiet("AutoStart")
    /\ UNCHANGED <<now, visibilityState, isActive, authRefreshInterval,
                   connectionPingInterval, lastActivity, nextHandle, activityListeners,
                   closures, tasks, envEvents>>
    /\ UNCHANGED serverVars

(* The module's setTimeout(() => keepAliveManager.start(), 2000), lines 271-276 *)
AutoStart ==
    /\ \E t \in timers : t.kind = "autostart" /\ t.due <= now
    /\ StartBody("AutoStart")
    /\ UNCHANGED <<now, visibilityState, tasks, envEvents>>

StopKeepsActive ==
    /\ Event
    /\ timers' = ClearInterval(ClearInterval(timers, authRefreshInterval),
                               connectionPingInterval)
    /\ authRefreshInterval' = Null
    /\ connectionPingInterval' = Null
    /\ step' = Quiet("stop")
    /\ UNCHANGED <<now, visibilityState, lastActivity, nextHandle, activityListeners,
                   closures, tasks, isActive>>
    /\ UNCHANGED serverVars

StopCancelsInFlight ==
    /\ Event
    /\ isActive' = FALSE
    /\ timers' = ClearInterval(ClearInterval(timers, authRefreshInterval),
                               connectionPingInterval)
    /\ authRefreshInterval' = Null
    /\ connectionPingInterval' = Null
    /\ tasks' = << >>
    /\ step' = Quiet("stop")
    /\ UNCHANGED <<now, visibilityState, lastActivity, nextHandle, activityListeners,
                   closures>>
    /\ UNCHANGED serverVars

StopRemovesListeners ==
    /\ Event
    /\ isActive' = FALSE
    /\ timers' = ClearInterval(ClearInterval(timers, authRefreshInterval),
                               connectionPingInterval)
    /\ authRefreshInterval' = Null
    /\ connectionPingInterval' = Null
    /\ activityListeners' = 0
    /\ step' = Quiet("stop")
    /\ UNCHANGED <<now, visibilityState, lastActivity, nextHandle, closures, tasks>>
    /\ UNCHANGED serverVars

StopRemovesHandlers ==
    /\ Event
    /\ isActive' = FALSE
    /\ timers' = {t \in ClearInterval(ClearInterval(timers, authRefreshInterval),
                                      connectionPingInterval) : t.kind # "idle"}
    /\ authRefreshInterval' = Null
    /\ connectionPingInterval' = Null
    /\ closures' = << >>
    /\ step' = Quiet("stop")
    /\ UNCHANGED <<now, visibilityState, lastActivity, nextHandle, activityListeners,
                   tasks>>
    /\ UNCHANGED serverVars

(* stop(), lines 44-55 *)
Stop ==
    /\ Event
    /\ isActive' = FALSE
    /\ timers' = ClearInterval(ClearInterval(timers, authRefreshInterval),
                               connectionPingInterval)
    /\ authRefreshInterval' = Null
    /\ connectionPingInterval' = Null
    /\ step' = Quiet("stop")
    /\ UNCHANGED <<now, visibilityState, lastActivity, nextHandle, activityListeners,
                   closures, tasks>>
    /\ UNCHANGED serverVars

(* updateActivity, lines 62-64, on any of the six input events of line 61 *)
UserActivity ==
    /\ Event
    /\ activityListeners > 0
    /\ lastActivity' = now
    /\ step' = Quiet("updateActivity")
    /\ UNCHANGED <<now, visibilityState, isActive, authRefreshInterval,
                   connectionPingInterval, timers, nextHandle, activityListeners,
                   closures, tasks>>
    /\ UNCHANGED serverVars

----------------------------------------------------------------------------
(* Timers *)

Due(kind) == {t \in timers : t.kind = kind /\ t.due <= now}

(* An interval that has run is due again one period later. *)
Rescheduled(t, period) == (timers \ {t}) \cup {[t EXCEPT !.due = now + period]}

Did(op, calls, events, task) ==
    [op |-> op, calls |-> calls, events |-> events, task |-> task]

(* A callback suspends at an await, or ends.  The locals expiresAt and        *)
(* timeUntilExpiry are not read after line 99, and are not kept across the    *)
(* await.                                                                     *)
Suspend(i, t) ==
    tasks' = [tasks EXCEPT ![i] = [t EXCEPT !.expiresAt = 0, !.timeUntilExpiry = 0]]
End(i) == tasks' = RemoveAt(tasks, i)

AwaitingAt(i, kinds, pc) == tasks[i].kind \in kinds /\ tasks[i].pc = pc

----------------------------------------------------------------------------
(* The session refresher: the interval callback of startAuthRefresh *)

(* session.expires_at ? session.expires_at * 1000 : 0, line 95 *)
ExpiresAtMs(expires_at) == IF expires_at # 0 THEN expires_at * 1000 ELSE 0

(* timeUntilExpiry, line 96 *)
TimeUntilExpiry(expires_at) == ExpiresAtMs(expires_at) - now

ShouldRefreshSoonOnly(timeUntilExpiry) == timeUntilExpiry < 5 * 60 * 1000

ShouldRefreshNear(timeUntilExpiry) ==
    timeUntilExpiry < 5 * 60 * 1000 \/ timeUntilExpiry > 61 * 60 * 1000

(* The condition of line 99 *)
ShouldRefresh(timeUntilExpiry) ==
    timeUntilExpiry < 5 * 60 * 1000 \/ timeUntilExpiry > 60 * 60 * 1000

(* The values of session.expires_at (seconds) the auth collaborator returns:   *)
(* none, or 2, 5, 30, 60 and 61 minutes from now.                              *)
ExpiresAtChoices == {0} \cup {now \div 1000 + m * 60 : m \in {2, 5, 30, 60, 61}}

AuthTickUnlessBusy(clientOk) ==
    IF \E i \in 1..Len(tasks) : tasks[i].kind = "auth"
    THEN NewTask("auth", "done")
    ELSE IF clientOk
         THEN [NewTask("auth", "getSession") EXCEPT !.calls = <<"getSession">>]
         ELSE [NewTask("auth", "done") EXCEPT !.sess = "throw"]

(* Lines 78-81: the callback obtains the client and calls getSession(),        *)
(* whatever earlier callbacks are still in flight; a failure to obtain the     *)
(* client is caught at line 116.                                               *)
AuthTick(clientOk) ==
    IF clientOk
    THEN [NewTask("auth", "getSession") EXCEPT !.calls = <<"getSession">>]
    ELSE [NewTask("auth", "done") EXCEPT !.sess = "throw"]

(* The auth-refresh interval fires: lines 78-81 and 120 *)
AuthRefreshTick ==
    /\ Len(tasks) < MaxInFlight
    /\ \E t \in Due("auth"), clientOk \in BOOLEAN :
          LET task == AuthTick(clientOk)
          IN /\ timers' = Rescheduled(t, AuthRefreshPeriod)
             /\ tasks' = IF task.pc = "done" THEN tasks ELSE Append(tasks, task)
             /\ step' = Did("AuthRefreshTick", task.calls, << >>, task)
    /\ UNCHANGED <<now, visibilityState, isActive, authRefreshInterval,
                   connectionPingInterval, lastActivity, nextHandle, activityListeners,
                   closures, envEvents>>
    /\ UNCHANGED serverVars

AuthGiveUp(t) == [t EXCEPT !.sess = "error", !.pc = "done"]

(* Lines 82-90: getSession() answered with an error; one recovery refresh *)
AuthRecover(t) ==
    [t EXCEPT !.sess = "error", !.pc = "recover", !.refresh = "pending",
              !.calls = Append(@, "refreshSession")]

(* Lines 93-111: a session was returned; refresh when line 99 says so *)
AuthCheckExpiry(t, expires_at) ==
    LET u == [t EXCEPT !.sess = "session", !.expiresAt = ExpiresAtMs(expires_at),
                       !.timeUntilExpiry = TimeUntilExpiry(expires_at)]
    IN IF ShouldRefresh(TimeUntilExpiry(expires_at))
       THEN [u EXCEPT !.pc = "refresh", !.refresh = "pending",
                      !.calls = Append(@, "refreshSession")]
       ELSE [u EXCEPT !.pc = "done"]

AuthNoSessionRenews(t, r) ==
    IF r = "none"
    THEN [t EXCEPT !.sess = r, !.pc = "recover", !.refresh = "pending",
                   !.calls = Append(@, "refreshSession")]
    ELSE [t EXCEPT !.sess = r, !.pc = "done"]

(* Lines 112-115: no session, only a warning; lines 116-119: getSession()     *)
(* rejected, only an error message.                                           *)
AuthNoSession(t, r) == [t EXCEPT !.sess = r, !.pc = "done"]

(* What the callback does when getSession() has answered, lines 81-119 *)
AuthAfterGetSession(t, r, expires_at) ==
    CASE r = "error" -> AuthRecover(t)
      [] r = "session" -> AuthCheckExpiry(t, expires_at)
      [] OTHER -> AuthNoSession(t, r)

(* A callback's step: it suspends again or ends; nothing else changes. *)
TaskStep(op, i, t) ==
    /\ IF t.pc = "done" THEN End(i) ELSE Suspend(i, t)
    /\ step' = Did(op, SubSeq(t.calls, Len(tasks[i].calls) + 1, Len(t.calls)), << >>, t)

AuthGetSessionReturns ==
    /\ \E i \in 1..Len(tasks) :
          /\ AwaitingAt(i, {"auth"}, "getSession")
          /\ \E r \in {"error", "session", "none", "throw"} :
             \E expires_at \in IF r = "session" THEN ExpiresAtChoices ELSE {0} :
                TaskStep("AuthGetSessionReturns", i,
                         AuthAfterGetSession(tasks[i], r, expires_at))
    /\ UNCHANGED <<now, visibilityState, isActive, authRefreshInterval,
                   connectionPingInterval, lastActivity, timers, nextHandle,
                   activityListeners, closures, envEvents>>
    /\ UNCHANGED serverVars

(* Lines 100-110 and 198-206: after refreshSession() in the expiry branch and *)
(* in the visibility handler.                                                  *)
AfterRefresh(t, r) ==
    IF r = "error"
    THEN [t EXCEPT !.refresh = r, !.pc = "import", !.calls = Append(@, "import")]
    ELSE [t EXCEPT !.refresh = r, !.pc = "done"]

AuthAfterRecoverEscalates(t, r) == AfterRefresh(t, r)

(* Lines 85-90: the recovery refresh; its outcome is ignored. *)
AuthAfterRecover(t, r) == [t EXCEPT !.refresh = r, !.pc = "done"]

AuthRecoverReturns ==
    /\ \E i \in 1..Len(tasks) :
          /\ AwaitingAt(i, {"auth"}, "recover")
          /\ \E r \in {"ok", "error", "throw"} :
                TaskStep("AuthRecoverReturns", i, AuthAfterRecover(tasks[i], r))
    /\ UNCHANGED <<now, visibilityState, isActive, authRefreshInterval,
                   connectionPingInterval, lastActivity, timers, nextHandle,
                   activityListeners, closures, envEvents>>
    /\ UNCHANGED serverVars

(* Lines 105-106 and 201-202 *)
AfterImport(t) ==
    [t EXCEPT !.pc = "logout", !.calls = Append(@, "performCompleteLogout")]

AfterLogoutStays(t) == [t EXCEPT !.pc = "done"]

(* Lines 106-107 and 202-203 *)
AfterLogout(t) ==
    [t EXCEPT !.pc = "done", !.calls = Append(@, "forceRedirectToHome")]

RefreshReturns ==
    /\ \E i \in 1..Len(tasks) :
          /\ AwaitingAt(i, {"auth", "vis"}, "refresh")
          /\ \E r \in {"ok", "error", "throw"} :
                TaskStep("RefreshReturns", i, AfterRefresh(tasks[i], r))
    /\ UNCHANGED <<now, visibilityState, isActive, authRefreshInterval,
                   connectionPingInterval, lastActivity, timers, nextHandle,
                   activityListeners, closures, envEvents>>
    /\ UNCHANGED serverVars

ImportReturns ==
    /\ \E i \in 1..Len(tasks) :
          /\ AwaitingAt(i, {"auth", "vis"}, "import")
          /\ TaskStep("ImportReturns", i, AfterImport(tasks[i]))
    /\ UNCHANGED <<now, visibilityState, isActive, authRefreshInterval,
                   connectionPingInterval, lastActivity, timers, nextHandle,
                   activityListeners, closures, envEvents>>
    /\ UNCHANGED serverVars

LogoutReturns ==
    /\ \E i \in 1..Len(tasks) :
          /\ AwaitingAt(i, {"auth", "vis"}, "logout")
          /\ TaskStep("LogoutReturns", i, AfterLogout(tasks[i]))
    /\ UNCHANGED <<now, visibilityState, isActive, authRefreshInterval,
                   connectionPingInterval, lastActivity, timers, nextHandle,
                   activityListeners, closures, envEvents>>
    /\ UNCHANGED serverVars

----------------------------------------------------------------------------
(* The connection prober: the interval callback of startConnectionPing *)

RaceDeadlineNextTick == now + PingPeriod

(* The instant the fallback of lines 147-149 resolves the race *)
RaceDeadline == now + PingTimeout

(* Lines 130-150: the tick obtains the client, issues the probe and races it   *)
(* against the 5 s fallback; a failure to obtain the client or to build the    *)
(* query is caught at line 168, which reconnects.                              *)
ConnectionPingTick ==
    /\ Len(tasks) < MaxInFlight
    /\ \E t \in Due("ping"), clientOk \in BOOLEAN :
          /\ timers' = Rescheduled(t, PingPeriod)
          /\ IF clientOk
             THEN LET task == [NewTask("ping", "race") EXCEPT
                                  !.calls = <<"probe">>, !.probe = "pending",
                                  !.deadline = RaceDeadline]
                  IN /\ tasks' = Append(tasks, task)
                     /\ step' = Did("ConnectionPingTick", <<"probe">>, << >>, task)
             ELSE /\ tasks' = tasks
                  /\ step' = Did("ConnectionPingTick", <<"reconnectNow">>, << >>,
                                 [NewTask("ping", "done") EXCEPT
                                     !.probe = "throw", !.calls = <<"reconnectNow">>])
    /\ UNCHANGED <<now, visibilityState, isActive, authRefreshInterval,
                   connectionPingInterval, lastActivity, nextHandle, activityListeners,
                   closures, envEvents>>
    /\ UNCHANGED serverVars

ProbeAliveOkOnly(r) == r = "ok"

(* Lines 152-167: the probe is alive when it answers without error or with     *)
(* PGRST116 (no rows).                                                         *)
ProbeAlive(r) == r = "ok" \/ r = "PGRST116"

(* Lines 152-171: what the callback does with the outcome r of the race *)
AfterProbe(t, r) ==
    IF ProbeAlive(r)
    THEN [t EXCEPT !.probe = r, !.pc = "done"]
    ELSE [t EXCEPT !.probe = r, !.pc = "done", !.calls = Append(@, "reconnectNow")]

ActivityAfterProbeAlways(r) == now

ActivityAfterProbeNever(r) == lastActivity

(* this.lastActivity after the callback, lines 155 and 166 *)
ActivityAfterProbe(r) == IF ProbeAlive(r) THEN now ELSE lastActivity

(* The probe settles first: a result, an error code, or a rejection. *)
PingReturns ==
    /\ \E i \in 1..Len(tasks) :
          /\ AwaitingAt(i, {"ping"}, "race")
          /\ \E r \in {"ok", "PGRST116", "OTHER", "throw"} :
                /\ TaskStep("PingReturns", i, AfterProbe(tasks[i], r))
                /\ lastActivity' = ActivityAfterProbe(r)
    /\ UNCHANGED <<now, visibilityState, isActive, authRefreshInterval,
                   connectionPingInterval, timers, nextHandle, activityListeners,
                   closures, envEvents>>
    /\ UNCHANGED serverVars

(* The fallback of lines 147-149 settles first. *)
PingTimesOut ==
    /\ \E i \in 1..Len(tasks) :
          /\ AwaitingAt(i, {"ping"}, "race")
          /\ tasks[i].deadline <= now
          /\ TaskStep("PingTimesOut", i, AfterProbe(tasks[i], "TIMEOUT"))
          /\ lastActivity' = ActivityAfterProbe("TIMEOUT")
    /\ UNCHANGED <<now, visibilityState, isActive, authRefreshInterval,
                   connectionPingInterval, timers, nextHandle, activityListeners,
                   closures, envEvents>>
    /\ UNCHANGED serverVars

----------------------------------------------------------------------------
(* The visibility/idle monitor: setupVisibilityRefresh *)

ShouldRefreshAlways(c) == TRUE

(* The condition of line 190 *)
ShouldRefreshOnVisible(c) ==
    now - c.lastHiddenTime > HiddenLimit \/ now - c.lastVisibleTime > VisibleLimit

(* The handlers, in the order installed, that refresh on this event *)
Refreshing(vis, clientOk) ==
    SelectSeq(closures, LAMBDA c : vis = "visible" /\ clientOk /\ ShouldRefreshOnVisible(c))

Map(f(_), sq) == [k \in 1..Len(sq) |-> f(sq[k])]

(* One handler of lines 183-223: what it leaves in its closure *)
ClosureAfter(c, vis, clientOk) ==
    IF vis = "visible"
    THEN IF ShouldRefreshOnVisible(c) /\ ~clientOk
         THEN c
         ELSE [c EXCEPT !.lastVisibleTime = now]
    ELSE [c EXCEPT !.lastHiddenTime = now]

VisTask(c) == [NewTask("vis", "getSession") EXCEPT !.calls = <<"getSession">>]
VisCall(c) == "reconnectNow"
VisEventNoDuration(c) == [reason |-> "visibility-change", hiddenDuration |-> 0]

(* The CustomEvent of lines 214-216 *)
VisEvent(c) == [reason |-> "visibility-change", hiddenDuration |-> now - c.lastHiddenTime]

(* A visibilitychange event runs every installed handler.  A handler that     *)
(* cannot obtain the client (line 194) throws before lines 211-219.           *)
VisibilityChange ==
    /\ Event
    /\ \E clientOk \in BOOLEAN :
          LET vis == IF visibilityState = "visible" THEN "hidden" ELSE "visible"
              hit == Refreshing(vis, clientOk)
              nThrow == Len(SelectSeq(closures, LAMBDA c :
                            vis = "visible" /\ ~clientOk /\ ShouldRefreshOnVisible(c)))
          IN /\ Len(tasks) + Len(hit) <= MaxInFlight
             /\ visibilityState' = vis
             /\ closures' = [k \in 1..Len(closures) |->
                                ClosureAfter(closures[k], vis, clientOk)]
             /\ tasks' = tasks \o Map(VisTask, hit)
             /\ step' = Did("visibilitychange", Map(VisCall, hit), Map(VisEvent, hit),
                            [NoTask EXCEPT !.threw = nThrow > 0])
    /\ UNCHANGED <<now, isActive, authRefreshInterval, connectionPingInterval,
                   lastActivity, timers, nextHandle, activityListeners>>
    /\ UNCHANGED serverVars

(* Lines 195-196: the handler's continuation refreshes whenever a session is   *)
(* returned; a rejection is caught at line 208.                                *)
VisAfterGetSession(t, r) ==
    IF r = "session"
    THEN [t EXCEPT !.sess = r, !.pc = "refresh", !.refresh = "pending",
                   !.calls = Append(@, "refreshSession")]
    ELSE [t EXCEPT !.sess = r, !.pc = "done"]

VisGetSessionReturns ==
    /\ \E i \in 1..Len(tasks) :
          /\ AwaitingAt(i, {"vis"}, "getSession")
          /\ \E r \in {"error", "session", "none", "throw"} :
                TaskStep("VisGetSessionReturns", i, VisAfterGetSession(tasks[i], r))
    /\ UNCHANGED <<now, visibilityState, isActive, authRefreshInterval,
                   connectionPingInterval, lastActivity, timers, nextHandle,
                   activityListeners, closures, envEvents>>
    /\ UNCHANGED serverVars

(* The condition of line 232 *)
IdleTooLong == now - lastActivity > IdleLimit /\ visibilityState = "visible"

(* The idle check of lines 227-249.  It has no try/catch: a failure to obtain  *)
(* the client (line 235) leaves the callback as an uncaught exception.         *)
IdleCheckTick ==
    /\ \E t \in Due("idle"), clientOk \in BOOLEAN :
          /\ timers' = Rescheduled(t, IdleCheckPeriod)
          /\ IF ~IdleTooLong
             THEN /\ step' = Did("IdleCheckTick", << >>, << >>, NewTask("idle", "done"))
                  /\ UNCHANGED <<tasks, lastActivity>>
             ELSE IF ~clientOk
             THEN /\ step' = Did("IdleCheckTick", << >>, << >>,
                                 [NewTask("idle", "done") EXCEPT !.threw = TRUE])
                  /\ UNCHANGED <<tasks, lastActivity>>
             ELSE LET task == [NewTask("idle", "getSession") EXCEPT
                                  !.calls = <<"getSession">>]
                  IN /\ Len(tasks) < MaxInFlight
                     /\ tasks' = Append(tasks, task)
                     /\ lastActivity' = now
                     /\ step' = Did("IdleCheckTick", <<"getSession">>,
                                    <<[reason |-> "idle-refresh"]>>, task)
    /\ UNCHANGED <<now, visibilityState, isActive, authRefreshInterval,
                   connectionPingInterval, nextHandle, activityListeners, closures,
                   envEvents>>
    /\ UNCHANGED serverVars

(* Lines 236-240: best-effort refresh; every failure is swallowed. *)
IdleAfterGetSession(t, r) ==
    IF r = "session"
    THEN [t EXCEPT !.sess = r, !.pc = "idleRefresh", !.refresh = "pending",
                   !.calls = Append(@, "refreshSession")]
    ELSE [t EXCEPT !.sess = r, !.pc = "done"]

IdleAfterRefresh(t, r) == [t EXCEPT !.refresh = r, !.pc = "done"]

IdleGetSessionReturns ==
    /\ \E i \in 1..Len(tasks) :
          /\ AwaitingAt(i, {"idle"}, "getSession")
          /\ \E r \in {"error", "session", "none", "throw"} :
                TaskStep("IdleGetSessionReturns", i, IdleAfterGetSession(tasks[i], r))
    /\ UNCHANGED <<now, visibilityState, isActive, authRefreshInterval,
                   connectionPingInterval, lastActivity, timers, nextHandle,
                   activityListeners, closures, envEvents>>
    /\ UNCHANGED serverVars

IdleRefreshReturns ==
    /\ \E i \in 1..Len(tasks) :
          /\ AwaitingAt(i, {"idle"}, "idleRefresh")
          /\ \E r \in {"ok", "error", "throw"} :
                TaskStep("IdleRefreshReturns", i, IdleAfterRefresh(tasks[i], r))
    /\ UNCHANGED <<now, visibilityState, isActive, authRefreshInterval,
                   connectionPingInterval, lastActivity, timers, nextHandle,
                   activityListeners, closures, envEvents>>
    /\ UNCHANGED serverVars

----------------------------------------------------------------------------

Next ==
    \/ Advance \/ Start \/ AutoStart \/ Stop \/ UserActivity \/ VisibilityChange
    \/ AuthRefreshTick \/ AuthGetSessionReturns \/ AuthRecoverReturns
    \/ RefreshReturns \/ ImportReturns \/ LogoutReturns
    \/ ConnectionPingTick \/ PingReturns \/ PingTimesOut
    \/ VisGetSessionReturns
    \/ IdleCheckTick \/ IdleGetSessionReturns \/ IdleRefreshReturns

Spec == Init /\ [][Next]_vars

(* The event loop runs a timer that is due: the module's setTimeout callback  *)
(* is not postponed for ever.                                                  *)
LiveSpec == Spec /\ WF_vars(AutoStart)

----------------------------------------------------------------------------
(* The manager left alone: no user input, no start() or stop() beyond the      *)
(* module's own, and every connection probe answered alive.                    *)

(* The instants at which a timer or the fallback of a probe is due *)
Instants == {t.due : t \in timers} \cup Fallbacks

(* Time passes with the event loop running: the clock reaches the next instant *)
(* at which something is due, and whatever is due runs before it moves on.     *)
TimePasses ==
    /\ ~Runnable
    /\ Instants # {}
    /\ now < PageLoadTime + MaxMinutes * 60000
    /\ now' = CHOOSE m \in Instants : \A k \in Instants : m <= k
    /\ step' = Quiet("TimePasses")
    /\ UNCHANGED <<visibilityState, isActive, authRefreshInterval, connectionPingInterval,
                   lastActivity, timers, nextHandle, activityListeners, closures, tasks,
                   envEvents>>
    /\ UNCHANGED serverVars

(* The event loop is suspended (the machine sleeps) for more than the idle     *)
(* limit: the clock passes over whatever became due meanwhile.                 *)
Suspension ==
    /\ now < PageLoadTime + MaxMinutes * 60000
    /\ Advance
    /\ now' - now > IdleLimit

(* A tick that obtains the client and issues the probe *)
ProbeIssued == ConnectionPingTick /\ step'.task.pc = "race"

(* A probe answered alive before its fallback *)
ProbeAnsweredAlive == PingReturns /\ ProbeAlive(step'.task.probe)

UnattendedNext ==
    \/ TimePasses \/ Suspension \/ AutoStart
    \/ AuthRefreshTick \/ AuthGetSessionReturns \/ AuthRecoverReturns
    \/ RefreshReturns \/ ImportReturns \/ LogoutReturns
    \/ ProbeIssued \/ ProbeAnsweredAlive
    \/ IdleCheckTick \/ IdleGetSessionReturns \/ IdleRefreshReturns

UnattendedSpec == Init /\ [][UnattendedNext]_vars

----------------------------------------------------------------------------
(* The manager after one start()/stop() cycle.  The module's own timer has     *)
(* called start(), 5 s after the page loaded, and a caller has then called     *)
(* stop(): the handler and the idle interval of setupVisibilityRefresh and the *)
(* activity listeners are installed, the two cleared intervals are gone.       *)

RestartTime == PageLoadTime + 5000

RestartInit ==
    /\ ApiAtRest /\ SqlAtRest
    /\ now = RestartTime
    /\ visibilityState \in {"visible", "hidden"}
    /\ isActive = FALSE
    /\ authRefreshInterval = Null
    /\ connectionPingInterval = Null
    /\ lastActivity = RestartTime
    /\ timers = {[id |-> 4, kind |-> "idle", due |-> RestartTime + IdleCheckPeriod]}
    /\ nextHandle = 5
    /\ activityListeners = 1
    /\ closures = <<[lastHiddenTime |-> 0, lastVisibleTime |-> RestartTime]>>
    /\ tasks = << >>
    /\ envEvents = 0
    /\ step = Quiet("stop")

(* The module's timer has run: AutoStart is not enabled again. *)
RestartNext ==
    \/ Advance \/ Start \/ Stop \/ UserActivity \/ VisibilityChange
    \/ AuthRefreshTick \/ AuthGetSessionReturns \/ AuthRecoverReturns
    \/ RefreshReturns \/ ImportReturns \/ LogoutReturns
    \/ ConnectionPingTick \/ PingReturns \/ PingTimesOut
    \/ VisGetSessionReturns
    \/ IdleCheckTick \/ IdleGetSessionReturns \/ IdleRefreshReturns

RestartSpec == RestartInit /\ [][RestartNext]_vars

----------------------------------------------------------------------------
(* The watch-ads-earnings route: src/app/api/admin/watch-ads-earnings/route.ts *)

(* On the server the keepalive module registers nothing: the condition of     *)
(* line 271 of keepalive-manager.ts is false.                                  *)
ManagerNotLoaded ==
    /\ now = PageLoadTime
    /\ visibilityState = "hidden"
    /\ isActive = FALSE
    /\ authRefreshInterval = Null
    /\ connectionPingInterval = Null
    /\ lastActivity = PageLoadTime
    /\ timers = {}
    /\ nextHandle = 2
    /\ activityListeners = 0
    /\ closures = << >>
    /\ tasks = << >>
    /\ envEvents = 0
    /\ step = Quiet("load")

(* The rows of video_watches the handlers read and write.  approval_status     *)
(* "null" is SQL NULL; watch_completed_at is TRUE when the timestamp is set;   *)
(* updated_at is "request" once a PATCH has written it.                        *)
WatchIds == {"w1", "w2"}
ApprovalStatuses == {"null", "pending", "approved", "rejected"}
WatchRows == [is_qualified : BOOLEAN, credits_awarded : BOOLEAN,
              approval_status : ApprovalStatuses, watch_completed_at : BOOLEAN,
              updated_at : {"earlier"}]
WatchTables == UNION {[S -> WatchRows] : S \in SUBSET WatchIds}

ApiInit ==
    /\ ManagerNotLoaded /\ SqlAtRest
    /\ video_watches \in WatchTables
    /\ patch = NoPatch
    /\ listing = NoListing

(* A handler answers and ends. *)
Respond(p, code) == [p EXCEPT !.pc = "done", !.response = code]

(* Line 136: status is present and is 'approved' or 'rejected' *)
PatchValidStatus(status) == status \in {"approved", "rejected"}

(* PATCH, lines 128-165: the body is read and validated, the admin client      *)
(* obtained and the existence check issued; an exception (a malformed body, a  *)
(* throwing client factory) is answered 500 by the catch of line 243.          *)
PatchStart(p, body, client) ==
    CASE body # "json" -> Respond(p, 500)
      [] ~PatchValidStatus(p.status) -> Respond(p, 400)
      [] p.id = "" -> Respond(p, 400)
      [] client # "ok" -> Respond(p, 500)
      [] OTHER -> [p EXCEPT !.pc = "check"]

PatchArrives ==
    /\ patch.pc \in {"idle", "done"}
    /\ \E id \in WatchIds \cup {""},
          status \in {"missing", "approved", "rejected", "pending"},
          body \in {"json", "malformed"},
          client \in {"ok", "null", "throw"} :
          /\ body = "malformed" => (status = "missing" /\ client = "ok")
          /\ patch' = PatchStart([NoPatch EXCEPT !.id = id, !.status = status,
                                                 !.before = video_watches],
                                 body, client)
    /\ UNCHANGED <<video_watches, listing, managerVars, sqlVars>>

PatchNotFoundAfterAward(p) == [Respond(p, 404) EXCEPT !.awardCalls = @ + 1]

(* Lines 170-174 and 183-188: no such watch *)
PatchNotFound(p) == Respond(p, 404)

ShouldAwardUnqualified(status, w) == status = "approved" /\ ~w.credits_awarded

(* The condition of line 198 *)
ShouldAward(status, w) == status = "approved" /\ w.is_qualified /\ ~w.credits_awarded

(* Lines 167-206: what the handler does with the answer r of the existence     *)
(* check, w being the row returned.                                            *)
AfterCheck(p, r, w) ==
    CASE r = "row" ->
            IF ShouldAward(p.status, w)
            THEN [p EXCEPT !.existingWatch = {w}, !.pc = "award", !.awardCalls = @ + 1]
            ELSE [p EXCEPT !.existingWatch = {w}, !.pc = "update"]
      [] r \in {"PGRST116", "nodata"} -> PatchNotFound(p)
      [] OTHER -> Respond(p, 500)

(* The answers the existence check of lines 161-165 can give *)
CheckAnswers(id) ==
    (IF id \in DOMAIN video_watches THEN {"row"} ELSE {"PGRST116", "nodata"})
    \cup {"error", "throw"}

PatchCheckReturns ==
    /\ patch.pc = "check"
    /\ \E r \in CheckAnswers(patch.id) :
          LET w == IF r = "row" THEN video_watches[patch.id]
                   ELSE CHOOSE x \in WatchRows : TRUE
          IN patch' = AfterCheck(patch, r, w)
    /\ UNCHANGED <<video_watches, listing, managerVars, sqlVars>>

(* award_video_watch_credits(p_watch_id): when it succeeds the credits of the  *)
(* watch are awarded; when it declines, answers with an error or the call      *)
(* throws, the award failed and the row is as it was.                          *)
AwardEffect(T, id, r) ==
    IF r = "awarded" /\ id \in DOMAIN T
    THEN [T EXCEPT ![id].credits_awarded = TRUE]
    ELSE T

AfterAwardAborts(p, r) ==
    IF r \in {"error", "throw"}
    THEN [Respond(p, 500) EXCEPT !.award = r]
    ELSE [p EXCEPT !.award = r, !.pc = "update"]

(* Lines 208-226: whatever the RPC answered, the handler goes on to the update *)
AfterAward(p, r) == [p EXCEPT !.award = r, !.pc = "update"]

PatchAwardReturns ==
    /\ patch.pc = "award"
    /\ \E r \in {"awarded", "declined", "error", "throw"} :
          /\ video_watches' = AwardEffect(video_watches, patch.id, r)
          /\ patch' = AfterAward(patch, r)
    /\ UNCHANGED <<listing, managerVars, sqlVars>>

(* The update of lines 192-226: approval_status and updated_at of the row *)
UpdateEffect(T, id, status, r) ==
    IF r = "ok" /\ id \in DOMAIN T
    THEN [T EXCEPT ![id].approval_status = status, ![id].updated_at = "request"]
    ELSE T

(* Lines 228-248 *)
AfterUpdate(p, r) == [Respond(p, IF r = "ok" THEN 200 ELSE 500) EXCEPT !.update = r]

PatchUpdateReturns ==
    /\ patch.pc = "update"
    /\ \E r \in {"ok", "error", "throw"} :
          /\ video_watches' = UpdateEffect(video_watches, patch.id, patch.status, r)
          /\ patch' = AfterUpdate(patch, r)
    /\ UNCHANGED <<listing, managerVars, sqlVars>>

(* GET, line 15: searchParams.get('status') || 'all' *)
StatusFilter(param) == IF param \in {"absent", ""} THEN "all" ELSE param

(* The filter the query is sent with, lines 27-33 *)
Queried(statusFilter, w) ==
    CASE statusFilter = "pending" -> w.approval_status \in {"null", "pending"}
      [] statusFilter = "approved" -> w.approval_status = "approved"
      [] statusFilter = "rejected" -> w.approval_status = "rejected"
      [] OTHER -> TRUE

ShownWhenCompleted(statusFilter, w) ==
    /\ w.watch_completed_at
    /\ CASE statusFilter = "all" -> TRUE
         [] statusFilter = "pending" -> w.approval_status \in {"null", "pending"}
         [] statusFilter = "approved" -> w.approval_status = "approved"
         [] statusFilter = "rejected" -> w.approval_status = "rejected"
         [] OTHER -> FALSE

(* The filter of lines 46-63 *)
Shown(statusFilter, w) ==
    LET needsApproval == w.watch_completed_at /\ w.approval_status \in {"null", "pending"}
        isApproved == w.approval_status = "approved"
        isRejected == w.approval_status = "rejected"
    IN CASE statusFilter = "all" -> w.watch_completed_at
         [] statusFilter = "pending" -> needsApproval
         [] statusFilter = "approved" -> isApproved
         [] statusFilter = "rejected" -> isRejected
         [] OTHER -> FALSE

(* filteredWatches, lines 35-63, by id *)
FilteredWatches(statusFilter) ==
    {id \in {i \in DOMAIN video_watches : Queried(statusFilter, video_watches[i])} :
        Shown(statusFilter, video_watches[id])}

(* Lines 99-110: one earning per filtered watch, and their number *)
Answer(statusFilter) ==
    [status |-> 200, statusFilter |-> statusFilter,
     earnings |-> FilteredWatches(statusFilter),
     count |-> Cardinality(FilteredWatches(statusFilter))]

(* GET, lines 4-119: a failure to obtain the client, a query error or an       *)
(* exception is answered 500.                                                  *)
Get ==
    /\ \E param \in {"absent", "", "all", "pending", "approved", "rejected", "other"},
          outcome \in {"ok", "noClient", "fetchError", "throw"} :
          listing' = IF outcome = "ok"
                     THEN Answer(StatusFilter(param))
                     ELSE [NoListing EXCEPT !.status = 500,
                                            !.statusFilter = StatusFilter(param)]
    /\ UNCHANGED <<video_watches, patch, managerVars, sqlVars>>

(* The two handlers are checked apart: GET writes nothing, and every table a   *)
(* PATCH can leave behind is, up to updated_at, one of the tables of ApiInit.  *)
PatchNext ==
    \/ PatchArrives \/ PatchCheckReturns \/ PatchAwardReturns \/ PatchUpdateReturns

PatchSpec == ApiInit /\ [][PatchNext]_vars

GetNext == Get

GetSpec == ApiInit /\ [][GetNext]_vars

----------------------------------------------------------------------------
(* soft_delete_collection: src/unnamed/part_001, lines 85-184 *)

(* unified_collections and collections are the sets of the ids of their rows;  *)
(* deleted_transactions is the sequence of the original_collection_id of its   *)
(* rows.  v_user_role "NULL" is a caller with no row in users or no role.      *)
CollectionIds == {"c1", "c2"}
Roles == {"NULL", "SUPER_ADMIN", "superadmin", "super_admin", "ADMIN", "admin",
          "Admin", "collector"}

Tables == [unified_collections |-> unified_collections, collections |-> collections,
           deleted_transactions |-> deleted_transactions]

SqlInit ==
    /\ ManagerNotLoaded /\ ApiAtRest
    /\ unified_collections \in SUBSET CollectionIds
    /\ collections \in SUBSET CollectionIds
    /\ deleted_transactions = << >>
    /\ softDelete = NoSoftDelete

(* Lines 109-110 *)
Permitted(role) ==
    role # "NULL" /\ role \in {"SUPER_ADMIN", "superadmin", "super_admin", "ADMIN", "admin"}

(* RETURN jsonb_build_object('success', ...) *)
Return(c, success) == [c EXCEPT !.pc = "done", !.success = success]

(* Lines 103-137: the role check and the lookup of the collection, first in    *)
(* unified_collections, then in collections.                                   *)
Looked(c) ==
    CASE ~Permitted(c.v_user_role) -> Return(c, "false")
      [] c.p_collection_id \in unified_collections -> [c EXCEPT !.pc = "insert"]
      [] c.p_collection_id \in collections -> [c EXCEPT !.pc = "insert"]
      [] OTHER -> Return(c, "false")

HandledWithoutRollback(T, saved) == T

(* Lines 178-182: the handler of the block; entering it undoes what the block  *)
(* wrote.                                                                      *)
Handled(T, saved) == saved

(* An exception raised by a statement of the block *)
Raise ==
    /\ unified_collections' = Handled(Tables, softDelete.saved).unified_collections
    /\ collections' = Handled(Tables, softDelete.saved).collections
    /\ deleted_transactions' = Handled(Tables, softDelete.saved).deleted_transactions
    /\ softDelete' = Return(softDelete, "false")

SoftDeleteCalled ==
    /\ softDelete.pc \in {"idle", "done"}
    /\ \E id \in CollectionIds, role \in Roles, raised \in BOOLEAN :
          LET c == [NoSoftDelete EXCEPT !.pc = "look", !.p_collection_id = id,
                                        !.v_user_role = role, !.saved = Tables]
          IN softDelete' = IF raised THEN Return(c, "false") ELSE Looked(c)
    /\ UNCHANGED <<unified_collections, collections, deleted_transactions>>
    /\ UNCHANGED <<managerVars, apiVars>>

(* Lines 140-166 *)
SoftDeleteInserts ==
    /\ softDelete.pc = "insert"
    /\ \/ /\ deleted_transactions' = Append(deleted_transactions, softDelete.p_collection_id)
          /\ softDelete' = [softDelete EXCEPT !.pc = "deleteUnified"]
          /\ UNCHANGED <<unified_collections, collections>>
       \/ Raise
    /\ UNCHANGED <<managerVars, apiVars>>

(* Line 169 *)
SoftDeleteDeletesUnified ==
    /\ softDelete.pc = "deleteUnified"
    /\ \/ /\ unified_collections' = unified_collections \ {softDelete.p_collection_id}
          /\ softDelete' = [softDelete EXCEPT !.pc = "deleteCollections"]
          /\ UNCHANGED <<collections, deleted_transactions>>
       \/ Raise
    /\ UNCHANGED <<managerVars, apiVars>>

(* Lines 170-176 *)
SoftDeleteDeletesCollections ==
    /\ softDelete.pc = "deleteCollections"
    /\ \/ /\ collections' = collections \ {softDelete.p_collection_id}
          /\ softDelete' = Return(softDelete, "true")
          /\ UNCHANGED <<unified_collections, deleted_transactions>>
       \/ Raise
    /\ UNCHANGED <<managerVars, apiVars>>

SqlNext ==
    \/ SoftDeleteCalled \/ SoftDeleteInserts
    \/ SoftDeleteDeletesUnified \/ SoftDeleteDeletesCollections

SqlSpec == SqlInit /\ [][SqlNext]_vars

----------------------------------------------------------------------------
(* What the properties below read *)

(* Every callback that can be seen: those in flight and the one the last step ran *)
Callbacks == {tasks[i] : i \in 1..Len(tasks)} \cup {step.task}

IntervalsOf(kind) == {t \in timers : t.kind = kind}

Registered(h, kind) == \E t \in timers : t.id = h /\ t.kind = kind

(* The logout and redirect calls among calls, in order *)
LogoutCalls(calls) ==
    SelectSeq(calls, LAMBDA c : c \in {"performCompleteLogout", "forceRedirectToHome"})

(* refreshSession(), called with a session in hand by the expiry branch (line *)
(* 100) or by the visibility handler (line 198), answered with an error.       *)
EscalatingRefreshFailed(r) ==
    r.kind \in {"auth", "vis"} /\ r.sess = "session" /\ r.refresh = "error"

----------------------------------------------------------------------------
(* C1: after any sequence of start() and stop() there is at most one pending  *)
(* auth-refresh interval and at most one pending connection-ping interval,    *)
(* and when start() returns - the first call or a repeated one - there is     *)
(* exactly one of each.                                                        *)
C1_OneTimerPerConcern ==
    /\ Cardinality(IntervalsOf("auth")) <= 1
    /\ Cardinality(IntervalsOf("ping")) <= 1
    /\ step.op \in {"start", "AutoStart"} =>
          /\ Cardinality(IntervalsOf("auth")) = 1
          /\ Cardinality(IntervalsOf("ping")) = 1

(* start() has just returned early (it registered nothing) at the very        *)
(* instant the manager was started.                                            *)
C1_Witness ==
    /\ step.op = "start" /\ step.calls = << >>
    /\ isActive /\ lastActivity = now /\ Len(closures) = 1
    /\ Cardinality(IntervalsOf("auth")) = 1
    /\ Cardinality(IntervalsOf("ping")) = 1

(* C2: when stop() returns, none of the interval timers start() registered    *)
(* (auth refresh, connection ping, 5-minute idle check) is pending any more   *)
(* and getActive() is false.                                                   *)
C2_StopClearsEveryTimer ==
    step.op = "stop" =>
        /\ ~isActive
        /\ IntervalsOf("auth") \cup IntervalsOf("ping") \cup IntervalsOf("idle") = {}

(* C3: isActive holds exactly when both interval handles are non-null and     *)
(* name a registered timer of their kind.                                      *)
C3_ActiveIffTimersRegistered ==
    isActive <=> /\ authRefreshInterval # Null
                 /\ connectionPingInterval # Null
                 /\ Registered(authRefreshInterval, "auth")
                 /\ Registered(connectionPingInterval, "ping")

(* stop() has returned on a manager that had been started. *)
C3_Witness ==
    /\ step.op = "stop" /\ Len(closures) = 1 /\ ~isActive
    /\ authRefreshInterval = Null /\ connectionPingInterval = Null

C6_LogoutOnlyAfterRefreshError ==
    /\ \A r \in Callbacks : LogoutCalls(r.calls) # << >> => EscalatingRefreshFailed(r)
    /\ LogoutCalls(step.calls) # << >> =>
          /\ step.op \in {"ImportReturns", "LogoutReturns"}
          /\ EscalatingRefreshFailed(step.task)

(* The visibility handler has just called performCompleteLogout. *)
C6_Witness ==
    /\ step.task.kind = "vis"
    /\ step.calls = <<"performCompleteLogout">>

(* C7: on an auth-refresh tick whose getSession() answered with an error,     *)
(* exactly one recovery refreshSession() is called; whatever it answers, the  *)
(* tick then ends with no further call (no logout, no redirect), no exception *)
(* leaves it, and the interval of a manager still running stays registered.   *)
C7_OneRecoveryRefresh ==
    /\ (step.op = "AuthGetSessionReturns" /\ step.task.sess = "error") =>
          /\ step.calls = <<"refreshSession">>
          /\ step.task.pc = "recover"
    /\ step.op = "AuthRecoverReturns" =>
          /\ step.task.sess = "error"
          /\ step.task.refresh \in {"ok", "error", "throw"}
          /\ step.task.pc = "done"
          /\ step.task.calls = <<"getSession", "refreshSession">>
          /\ step.calls = << >>
          /\ ~step.task.threw
          /\ isActive => Registered(authRefreshInterval, "auth")
    /\ \A r \in Callbacks :
          (r.kind = "auth" /\ r.sess = "error") =>
              r.calls = <<"getSession", "refreshSession">>

(* The recovery refresh has thrown and the tick has ended, the manager running. *)
C7_Witness ==
    /\ step.op = "AuthRecoverReturns" /\ step.task.refresh = "throw"
    /\ step.task.pc = "done" /\ isActive

C9_FailedProbeReconnectsOnce ==
    [][(/\ step'.op \in {"ConnectionPingTick", "PingReturns", "PingTimesOut"}
        /\ step'.task.probe \in {"TIMEOUT", "OTHER", "throw"}) =>
          /\ step'.task.pc = "done"
          /\ step'.calls = <<"reconnectNow">>
          /\ Count(step'.task.calls, "reconnectNow") = 1
          /\ lastActivity' = lastActivity
          /\ ~step'.task.threw]_vars

(* The 5 s fallback has won the race, after activity older than this instant. *)
C9_Witness ==
    /\ step.op = "PingTimesOut" /\ step.task.probe = "TIMEOUT"
    /\ step.calls = <<"reconnectNow">>
    /\ lastActivity < now

(* C10: a connection-probe cycle whose query answers without error or with    *)
(* PGRST116 sets lastActivity to the current time and does not call           *)
(* reconnectNow().                                                             *)
C10_AliveProbeRecordsActivity ==
    (step.op = "PingReturns" /\ step.task.probe \in {"ok", "PGRST116"}) =>
        /\ lastActivity = now
        /\ step.calls = << >>
        /\ Count(step.task.calls, "reconnectNow") = 0
        /\ step.task.pc = "done"

(* The probe has just answered PGRST116, later than the manager was started. *)
C10_Witness ==
    /\ step.op = "PingReturns" /\ step.task.probe = "PGRST116"
    /\ lastActivity = now /\ now > PageLoadTime

C12_TimerCallbacksCatchEverything ==
    \A r \in Callbacks : r.kind \in {"auth", "ping", "idle"} => ~r.threw

C14_IdleCheckRefreshes ==
    step.op = "IdleCheckTick" =>
        \/ /\ step.events = <<[reason |-> "idle-refresh"]>>
           /\ lastActivity = now
        \/ /\ step.events = << >>
           /\ ~(now - lastActivity > 10 * 60 * 1000 /\ visibilityState = "visible")

(* C15: stop() leaves every callback in flight as it is, and a callback whose *)
(* call returns once the manager is stopped continues as it would have: a     *)
(* refresh error is followed by the import of the logout utilities, then      *)
(* performCompleteLogout, then forceRedirectToHome, and a failed probe by     *)
(* reconnectNow().                                                             *)
C15_StopLeavesCallbacksRunning ==
    [][/\ step'.op = "stop" => tasks' = tasks
       /\ (~isActive' /\ step'.op = "RefreshReturns" /\ step'.task.refresh = "error") =>
             /\ step'.calls = <<"import">>
             /\ step'.task.pc = "import"
             /\ \E i \in 1..Len(tasks') : tasks'[i] = step'.task
       /\ (~isActive' /\ step'.op = "ImportReturns") =>
             /\ step'.calls = <<"performCompleteLogout">>
             /\ \E i \in 1..Len(tasks') : tasks'[i] = step'.task
       /\ (~isActive' /\ step'.op = "LogoutReturns") =>
             step'.calls = <<"forceRedirectToHome">>
       /\ (/\ ~isActive' /\ step'.op \in {"PingReturns", "PingTimesOut"}
           /\ step'.task.probe \in {"TIMEOUT", "OTHER", "throw"}) =>
             step'.calls = <<"reconnectNow">>]_vars

(* The auth-refresh tick fired while the manager was running, stop() was      *)
(* called while it was in flight, and its refresh error has led to the        *)
(* redirect with the manager stopped and no auth-refresh interval registered. *)
C15_Witness ==
    /\ step.op = "LogoutReturns" /\ step.task.kind = "auth"
    /\ step.calls = <<"forceRedirectToHome">>
    /\ ~isActive /\ authRefreshInterval = Null
    /\ IntervalsOf("auth") = {}

(* C16: every auth-refresh tick that obtains the client starts a new callback *)
(* with its own getSession() call and leaves the interval registered for the  *)
(* next tick, whether or not an earlier callback is still in flight: nothing  *)
(* keeps two callbacks, each awaiting its own refreshSession(), from being    *)
(* pending together.                                                           *)
C16_AuthTicksOverlap ==
    step.op = "AuthRefreshTick" =>
        /\ isActive => Registered(authRefreshInterval, "auth")
        /\ \/ step.task.sess = "throw" /\ step.calls = << >>
           \/ /\ step.calls = <<"getSession">>
              /\ step.task.pc = "getSession"
              /\ Len(tasks) >= 1
              /\ tasks[Len(tasks)] = step.task

(* Two auth-refresh callbacks are in flight, both awaiting refreshSession().  *)
C16_Witness ==
    Cardinality({i \in 1..Len(tasks) :
                    /\ tasks[i].kind = "auth" /\ tasks[i].pc = "refresh"
                    /\ tasks[i].refresh = "pending"}) = 2

(* C17: stop() changes neither lastActivity nor the installed activity        *)
(* listeners, of which there is one set per start() that took effect; and a   *)
(* user input event, before or after stop(), sets lastActivity to the current *)
(* time.                                                                       *)
C17_StopKeepsActivityListeners ==
    [][/\ step'.op = "stop" =>
             /\ lastActivity' = lastActivity
             /\ activityListeners' = activityListeners
       /\ activityListeners' = Len(closures')
       /\ step'.op = "updateActivity" =>
             /\ activityListeners' >= 1
             /\ lastActivity' = now']_vars

(* A user input event has been recorded with the manager stopped. *)
C17_Witness ==
    /\ step.op = "updateActivity" /\ ~isActive
    /\ authRefreshInterval = Null /\ connectionPingInterval = Null
    /\ activityListeners = 1 /\ lastActivity = now

(* C18: the module's own timer calls start() no earlier than 2000 ms after    *)
(* the module was loaded, and once those 2000 ms have elapsed it does call    *)
(* it, with no caller involved, leaving getActive() true - whether or not     *)
(* start() or stop() were called before.                                       *)
C18_AutoStartsAfterDelay ==
    /\ [](step.op = "AutoStart" => (isActive /\ now >= PageLoadTime + 2000))
    /\ (\E t \in timers : t.kind = "autostart" /\ t.due <= now)
          ~> (step.op = "AutoStart" /\ isActive)

(* start() and stop() were called before the delay elapsed, and the module's  *)
(* timer has started the manager again.                                        *)
C18_Witness ==
    /\ step.op = "AutoStart" /\ isActive
    /\ step.calls = <<"setInterval", "setInterval", "setInterval">>
    /\ Len(closures) = 2
    /\ authRefreshInterval # Null /\ connectionPingInterval # Null

----------------------------------------------------------------------------
(* The watch-ads-earnings route *)

(* The row of the watch a PATCH names, when the table has it *)
PatchedRow == video_watches[patch.id]

(* C21: a PATCH answered 400 or 404 has left video_watches as it was when the  *)
(* request arrived and has not called award_video_watch_credits; 400 is the    *)
(* answer to a missing or invalid status or a missing id, 404 the answer when  *)
(* no watch has the id.                                                        *)
C21_ErrorAnswerChangesNothing ==
    (patch.pc = "done" /\ patch.response \in {400, 404}) =>
        /\ video_watches = patch.before
        /\ patch.awardCalls = 0
        /\ patch.response = 400 =>
               (patch.status \notin {"approved", "rejected"} \/ patch.id = "")
        /\ patch.response = 404 => patch.id \notin DOMAIN video_watches

C21_Witness ==
    /\ patch.pc = "done" /\ patch.response = 404
    /\ patch.status = "approved"
    /\ DOMAIN video_watches # {}
    /\ \E id \in DOMAIN video_watches :
          video_watches[id].is_qualified /\ ~video_watches[id].credits_awarded

(* C22: a PATCH calls award_video_watch_credits exactly when its status is     *)
(* 'approved' and the row it read at the start exists, is qualified and has no *)
(* credits awarded; it calls it once, and a 'rejected' PATCH never does.       *)
C22_AwardsIffApprovedQualifiedUnawarded ==
    /\ patch.awardCalls =
          IF /\ patch.status = "approved"
             /\ \E w \in patch.existingWatch : w.is_qualified /\ ~w.credits_awarded
          THEN 1 ELSE 0
    /\ \A w \in patch.existingWatch :
          patch.id \in DOMAIN patch.before /\ w = patch.before[patch.id]
    /\ patch.status = "rejected" => patch.awardCalls = 0

C22_Witness ==
    /\ patch.pc = "done" /\ patch.awardCalls = 1 /\ patch.award = "awarded"
    /\ patch.response = 200
    /\ PatchedRow.credits_awarded /\ PatchedRow.approval_status = "approved"

(* C23: when the award fails (the RPC answers with an error or the call        *)
(* throws) the PATCH goes on to the update, and once the update succeeds the   *)
(* answer is success and the watch is approved with no credits awarded.        *)
C23_ApprovalSurvivesFailedAward ==
    patch.award \in {"error", "throw"} =>
        /\ patch.pc \in {"update", "done"}
        /\ patch.pc = "done" => patch.update # "none"
        /\ patch.update = "ok" =>
              /\ patch.response = 200
              /\ PatchedRow.approval_status = "approved"
              /\ ~PatchedRow.credits_awarded

C23_Witness ==
    /\ patch.pc = "done" /\ patch.award = "throw" /\ patch.update = "ok"
    /\ patch.response = 200
    /\ PatchedRow.approval_status = "approved" /\ ~PatchedRow.credits_awarded
    /\ PatchedRow.is_qualified

(* C24: a successful GET lists, for the filter 'all', exactly the completed    *)
(* watches; for 'pending', the completed watches whose approval_status is null *)
(* or 'pending'; for 'approved' and 'rejected', exactly the watches with that  *)
(* status, completed or not; for any other filter, nothing; and count is the   *)
(* number of earnings listed.                                                  *)
C24_ListedWatches ==
    listing.status = 200 =>
        LET f == listing.statusFilter
            completed(id) == video_watches[id].watch_completed_at
            status(id) == video_watches[id].approval_status
            all == DOMAIN video_watches
        IN /\ f = "all" => listing.earnings = {id \in all : completed(id)}
           /\ f = "pending" =>
                 listing.earnings =
                    {id \in all : completed(id) /\ status(id) \in {"null", "pending"}}
           /\ f = "approved" => listing.earnings = {id \in all : status(id) = "approved"}
           /\ f = "rejected" => listing.earnings = {id \in all : status(id) = "rejected"}
           /\ f \notin {"all", "pending", "approved", "rejected"} => listing.earnings = {}
           /\ listing.count = Cardinality(listing.earnings)

C24_Witness ==
    /\ listing.status = 200 /\ listing.statusFilter = "approved"
    /\ listing.count = 2
    /\ \E id \in listing.earnings : ~video_watches[id].watch_completed_at
    /\ \E id \in listing.earnings : video_watches[id].watch_completed_at

----------------------------------------------------------------------------
(* soft_delete_collection *)

(* C25: a call of soft_delete_collection has changed the tables exactly when   *)
(* it returns success: then deleted_transactions has gained exactly one row,   *)
(* with original_collection_id the collection, and the collection is in        *)
(* neither unified_collections nor collections, whose other rows are as they   *)
(* were; a caller whose role is not one of the five listed, a collection in    *)
(* neither table and an exception all return success = false with the three    *)
(* tables as they were before the call.                                        *)
C25_TablesChangeIffSuccess ==
    softDelete.pc = "done" =>
        LET before == softDelete.saved
            id == softDelete.p_collection_id
        IN /\ softDelete.success \in {"true", "false"}
           /\ (Tables # before) <=> (softDelete.success = "true")
           /\ softDelete.success = "true" =>
                 /\ deleted_transactions = Append(before.deleted_transactions, id)
                 /\ unified_collections = before.unified_collections \ {id}
                 /\ collections = before.collections \ {id}
           /\ softDelete.v_user_role \notin
                 {"SUPER_ADMIN", "superadmin", "super_admin", "ADMIN", "admin"}
                 => softDelete.success = "false"
           /\ id \notin before.unified_collections \cup before.collections
                 => softDelete.success = "false"

C25_Witness ==
    /\ softDelete.pc = "done" /\ softDelete.success = "true"
    /\ softDelete.p_collection_id \in softDelete.saved.unified_collections
    /\ softDelete.p_collection_id \in softDelete.saved.collections
    /\ Len(deleted_transactions) = 2

----------------------------------------------------------------------------
(* The manager left alone *)

(* The idle check of the last step entered its refresh path: it broadcast, or  *)
(* it failed at line 235 on the way.                                           *)
IdlePathEntered ==
    step.op = "IdleCheckTick" /\ (step.events # << >> \/ step.task.threw)

----------------------------------------------------------------------------
(* start()/stop() cycles *)

(* The start() calls that took effect: each allocates three interval handles,  *)
(* after the one of the module's own timer.                                    *)
EffectiveStarts == (nextHandle - 2) \div 3

(* C27: the installed visibility handlers and the active idle-check intervals  *)
(* are as many as the start() calls that took effect, and stop() removes none; *)
(* on a visibility change to visible that passes the test of line 190 in every *)
(* installed handler, the session client being obtained, every handler starts  *)
(* a session refresh, reconnects and broadcasts 'app:refresh' - as many        *)
(* broadcasts as start() calls took effect, with the manager stopped or not.   *)
C27_HandlersAccumulate ==
    [][/\ Len(closures') = EffectiveStarts'
       /\ Cardinality(IntervalsOf("idle")') = EffectiveStarts'
       /\ step'.op = "stop" =>
             /\ closures' = closures
             /\ IntervalsOf("idle")' = IntervalsOf("idle")
             /\ EffectiveStarts' = EffectiveStarts
       /\ (/\ step'.op = "visibilitychange" /\ visibilityState' = "visible"
           /\ ~step'.task.threw
           /\ \A k \in 1..Len(closures) :
                 \/ now - closures[k].lastHiddenTime > 1000
                 \/ now - closures[k].lastVisibleTime > 60000) =>
             /\ Len(step'.events) = EffectiveStarts
             /\ \A j \in 1..Len(step'.events) :
                   step'.events[j].reason = "visibility-change"
             /\ step'.calls = [j \in 1..EffectiveStarts |-> "reconnectNow"]
             /\ Len(tasks') = Len(tasks) + EffectiveStarts
             /\ \A j \in (Len(tasks) + 1)..Len(tasks') :
                   tasks'[j].kind = "vis" /\ tasks'[j].calls = <<"getSession">>]_vars

(* After two start()/stop() cycles, with the manager stopped, one visibility   *)
(* change has produced two broadcasts.                                         *)
C27_Witness ==
    /\ step.op = "visibilitychange" /\ visibilityState = "visible"
    /\ ~isActive /\ authRefreshInterval = Null /\ connectionPingInterval = Null
    /\ EffectiveStarts = 2 /\ Len(closures) = 2
    /\ Cardinality(IntervalsOf("idle")) = 2
    /\ Len(step.events) = 2
    /\ step.calls = <<"reconnectNow", "reconnectNow">>
    /\ Len(tasks) = 2

====
